---- MODULE Spec2Model ----
(***************************************************************************)
(* Travel planning backend: the trip store with its service (create,       *)
(* partial update, delete, get) and the weather cache with its cache-first  *)
(* service (lazy expiry, provider call, mock fallback, write-through).      *)
(*                                                                         *)
(* Strings are sequences of one-character strings.  Times are whole        *)
(* seconds, dates are day numbers, wind speeds are tenths of km/h.          *)
(* One action is one run of the event loop between two suspension points:  *)
(* every handler is a single action except get_weather_for_location, which *)
(* suspends once, inside the HTTP request to the provider.                  *)
(***************************************************************************)
EXTENDS Integers, Sequences, FiniteSets, TLC

VARIABLES trips, cache, now, hashSeed, apiKey, inflight, served, last

vars == <<trips, cache, now, hashSeed, apiKey, inflight, served, last>>

weatherVars == <<cache, hashSeed, apiKey, inflight, served>>

(***************************************************************************)
(* Bounds of the model.                                                    *)
(***************************************************************************)
MaxTripId == 2

(***************************************************************************)
(* Optional values: a field that was not supplied, a field explicitly set  *)
(* to null, a field carrying a value.                                      *)
(***************************************************************************)
Unset == [k |-> "unset"]
Null == [k |-> "null"]
Val(v) == [k |-> "val", v |-> v]
IsVal(o) == o.k = "val"

Rep(c, n) == [i \in 1..n |-> c]

(***************************************************************************)
(* Field limits of the request models.                                     *)
(***************************************************************************)
NameMaxLength == 100
NotesMaxLength == 500

(***************************************************************************)
(* Input domains of the trip operations.  DateCreates and DateUpdates vary *)
(* the two dates, FieldUpdates varies which fields a partial update         *)
(* carries, LengthCreates varies the lengths of the strings.                *)
(***************************************************************************)
Dates == {1, 2}
TripIds == 1..MaxTripId
TripInstants == {0, 1}

DateCreates ==
  [name : {<<"a">>}, destination : {<<"a">>}, start_date : Dates,
   end_date : Dates, notes : {Null}]

DateUpdates ==
  [name : {Unset}, destination : {Unset},
   start_date : {Unset} \cup {Val(d) : d \in Dates},
   end_date : {Unset} \cup {Val(d) : d \in Dates},
   notes : {Unset}]

FieldUpdates ==
  [name : {Unset, Null, Val(<<"b">>)},
   destination : {Unset},
   start_date : {Unset},
   end_date : {Unset, Val(2)},
   notes : {Unset, Null, Val(<<"c">>)}]

LengthCreates ==
  [name : {<<>>, Rep("n", NameMaxLength), Rep("n", NameMaxLength + 1)},
   destination : {<<>>, <<"a">>},
   start_date : Dates, end_date : Dates,
   notes : {Null, Val(Rep("t", NotesMaxLength)),
            Val(Rep("t", NotesMaxLength + 1))}]

NoValue == [k |-> "none"]

(***************************************************************************)
(* Trip table and request models.                                          *)
(***************************************************************************)
\* TripCreate: field constraints, then the end_date validator.
TripCreateValid(inp) ==
  /\ Len(inp.name) >= 1
  /\ Len(inp.name) <= NameMaxLength
  /\ Len(inp.destination) >= 1
  /\ IsVal(inp.notes) => Len(inp.notes.v) <= NotesMaxLength
  /\ ~(inp.end_date <= inp.start_date)

\* TripUpdate: field constraints apply to supplied non-null values; the
\* end_date validator compares the two dates only when the input carries both.
TripUpdateValid(upd) ==
  /\ IsVal(upd.name) => Len(upd.name.v) >= 1 /\ Len(upd.name.v) <= NameMaxLength
  /\ IsVal(upd.destination) => Len(upd.destination.v) >= 1
  /\ IsVal(upd.notes) => Len(upd.notes.v) <= NotesMaxLength
  /\ (IsVal(upd.end_date) /\ IsVal(upd.start_date))
       => ~(upd.end_date.v <= upd.start_date.v)

duration_days_inclusive(t) == t.end_date - t.start_date + 1

\* Trip.duration_days
duration_days(t) == t.end_date - t.start_date

\* TripResponse.from_trip
TripResponse(t) ==
  [id |-> t.id, name |-> t.name, destination |-> t.destination,
   start_date |-> t.start_date, end_date |-> t.end_date, notes |-> t.notes,
   created_at |-> t.created_at, updated_at |-> t.updated_at,
   duration_days |-> duration_days(t)]

\* TripRepository.get_by_id: the rows with that primary key (none or one).
get_by_id(id) == {t \in trips : t.id = id}

TripOf(id) == CHOOSE t \in trips : t.id = id

\* The integer primary key the store assigns to an inserted row.
NextTripId ==
  IF trips = {} THEN 1
  ELSE (CHOOSE i \in {t.id : t \in trips} :
          \A j \in {t.id : t \in trips} : j <= i) + 1

\* model_dump(exclude_unset=True) followed by setattr for every dumped field.
Supplied(upd) == {f \in DOMAIN upd : upd[f].k # "unset"}

ApplyField(old, o) == IF o.k = "val" THEN o.v ELSE old

ApplyNotesAll(old, o) == IF o.k = "val" THEN o ELSE Null

ApplyNotes(old, o) == IF o.k = "unset" THEN old ELSE o

ApplyUpdates(t, upd) ==
  [t EXCEPT !.name = ApplyField(@, upd.name),
            !.destination = ApplyField(@, upd.destination),
            !.start_date = ApplyField(@, upd.start_date),
            !.end_date = ApplyField(@, upd.end_date),
            !.notes = ApplyNotes(@, upd.notes)]

\* The trip table's columns other than notes are NOT NULL: a commit that
\* would store a null in one of them is refused by the store.
NotNullOk(upd) ==
  \A f \in {"name", "destination", "start_date", "end_date"} : upd[f] # Null

TripEvent(op, id, inp, status, result) ==
  [op |-> op, id |-> id, inp |-> inp, status |-> status, result |-> result]

\* POST /api/trips: TripCreate validation, TripService.create_trip.
CreateTrip(inp) ==
  /\ IF ~TripCreateValid(inp)
       THEN /\ trips' = trips
            /\ last' = TripEvent("createTrip", 0, inp, "InvalidInput", NoValue)
       ELSE LET row == [id |-> NextTripId, name |-> inp.name,
                        destination |-> inp.destination,
                        start_date |-> inp.start_date,
                        end_date |-> inp.end_date, notes |-> inp.notes,
                        created_at |-> now, updated_at |-> now]
            IN /\ NextTripId <= MaxTripId
               /\ trips' = trips \cup {row}
               /\ last' = TripEvent("createTrip", row.id, inp, "ok",
                                    TripResponse(row))
  /\ UNCHANGED <<now, weatherVars>>

\* GET /api/trips/{id}: TripService.get_trip_by_id.
GetTrip(id) ==
  /\ last' = IF get_by_id(id) = {}
               THEN TripEvent("getTrip", id, NoValue, "NotFound", NoValue)
               ELSE TripEvent("getTrip", id, NoValue, "ok",
                              TripResponse(TripOf(id)))
  /\ UNCHANGED <<trips, now, weatherVars>>

\* PUT /api/trips/{id}: TripUpdate validation, TripService.update_trip.
UpdateTrip(id, upd) ==
  /\ IF ~TripUpdateValid(upd)
       THEN /\ trips' = trips
            /\ last' = TripEvent("updateTrip", id, upd, "InvalidInput", NoValue)
       ELSE IF get_by_id(id) = {}
       THEN /\ trips' = trips
            /\ last' = TripEvent("updateTrip", id, upd, "NotFound", NoValue)
       ELSE LET existing_trip ==
                  [ApplyUpdates(TripOf(id), upd) EXCEPT !.updated_at = now]
            IN IF ~NotNullOk(upd)
                 THEN /\ trips' = trips
                      /\ last' = TripEvent("updateTrip", id, upd,
                                           "IntegrityError", NoValue)
                 ELSE /\ trips' = (trips \ {TripOf(id)}) \cup {existing_trip}
                      /\ last' = TripEvent("updateTrip", id, upd, "ok",
                                           TripResponse(existing_trip))
  /\ UNCHANGED <<now, weatherVars>>

DeleteTripNoCheck(id) ==
  /\ trips' = trips \ get_by_id(id)
  /\ last' = TripEvent("deleteTrip", id, NoValue, "ok", NoValue)
  /\ UNCHANGED <<now, weatherVars>>

\* DELETE /api/trips/{id}: TripService.delete_trip, TripRepository.delete.
DeleteTrip(id) ==
  /\ IF get_by_id(id) = {}
       THEN /\ trips' = trips
            /\ last' = TripEvent("deleteTrip", id, NoValue, "NotFound", NoValue)
       ELSE /\ trips' = trips \ {TripOf(id)}
            /\ last' = TripEvent("deleteTrip", id, NoValue, "ok", NoValue)
  /\ UNCHANGED <<now, weatherVars>>

(***************************************************************************)
(* Strings of the weather service.                                         *)
(***************************************************************************)
\* str.lower and str.upper on one character.
LowerChar(c) == IF c = "A" THEN "a" ELSE IF c = "S" THEN "s" ELSE c

UpperChar(c) == IF c = "a" THEN "A" ELSE IF c = "s" THEN "S" ELSE c

lower(s) == [i \in 1..Len(s) |-> LowerChar(s[i])]

RECURSIVE lstrip(_)
lstrip(s) == IF s # <<>> /\ Head(s) = " " THEN lstrip(Tail(s)) ELSE s

RECURSIVE rstrip(_)
rstrip(s) ==
  IF s # <<>> /\ s[Len(s)] = " " THEN rstrip(SubSeq(s, 1, Len(s) - 1)) ELSE s

\* str.strip
strip(s) == rstrip(lstrip(s))

\* str.title: a letter that follows a letter is lowercased, any other letter
\* is uppercased.
title(s) ==
  [i \in 1..Len(s) |->
     IF i > 1 /\ s[i - 1] # " " THEN LowerChar(s[i]) ELSE UpperChar(s[i])]

(***************************************************************************)
(* Input domains of the weather operations.                                *)
(***************************************************************************)
MaxCacheId == 3
MaxInflight == 2

LocationInputs == {<<>>, <<" ">>, <<"a">>, <<"A">>, <<" ", "a">>, <<"A", " ">>}
Keys == {strip(l) : l \in LocationInputs} \ {<<>>}
Instants == {0, 1800, 1801}
HashValues == {0, 99}
HashFunctions == [{lower(k) : k \in Keys} -> HashValues]

\* What the provider answers to the one HTTP request of a cache miss: a
\* transport or status failure, or a JSON body.
ProviderFailures == {"timeout", "http404", "http401", "http500", "error"}

GoodBody ==
  [name |-> <<"A">>, main |-> [temp |-> 21, humidity |-> 60],
   weather |-> <<[description |-> <<"s", " ", "a">>]>>, wind |-> [speed |-> 25]]

ProviderBodies ==
  {GoodBody,
   [GoodBody EXCEPT !.wind = [deg |-> 0]],
   [GoodBody EXCEPT !.weather = <<>>],
   [GoodBody EXCEPT !.main = [temp |-> 21]],
   [GoodBody EXCEPT !.main = [temp |-> 21, humidity |-> 150]]}

ProviderReplies ==
  {[kind |-> f] : f \in ProviderFailures}
    \cup {[kind |-> "body", body |-> b] : b \in ProviderBodies}

(***************************************************************************)
(* Weather cache table.                                                    *)
(***************************************************************************)
is_expired_ge(row, t) == (t - row.cached_at) >= 1800

\* WeatherCache.is_expired
is_expired(row, t) == (t - row.cached_at) > 1800

\* The first row of a select: the one with the least primary key.
first(rows) == CHOOSE r \in rows : \A o \in rows : r.id <= o.id

\* The integer primary key the store assigns to an inserted cache row.
NextCacheId(c) ==
  IF c = {} THEN 1
  ELSE (CHOOSE i \in {r.id : r \in c} : \A j \in {r.id : r \in c} : j <= i) + 1

get_cached_weather_touch(c, location, t) ==
  LET rows == {r \in c : r.location = location}
  IN IF rows = {} THEN [found |-> NoValue, cache |-> c]
     ELSE IF is_expired(first(rows), t)
            THEN [found |-> NoValue, cache |-> c \ {first(rows)}]
            ELSE [found |-> [first(rows) EXCEPT !.cached_at = t],
                  cache |-> (c \ {first(rows)})
                              \cup {[first(rows) EXCEPT !.cached_at = t]}]

\* WeatherRepository.get_cached_weather: the row found (or none) and the
\* table after the read, which deletes the row when it is expired.
get_cached_weather(c, location, t) ==
  LET rows == {r \in c : r.location = location}
  IN IF rows = {} THEN [found |-> NoValue, cache |-> c]
     ELSE IF is_expired(first(rows), t)
            THEN [found |-> NoValue, cache |-> c \ {first(rows)}]
            ELSE [found |-> first(rows), cache |-> c]

store_weather_cache_always_insert(c, weather_cache, t) ==
  [cache |-> c \cup {[weather_cache EXCEPT !.id = NextCacheId(c)]},
   row |-> [weather_cache EXCEPT !.id = NextCacheId(c)]]

store_weather_cache_keep_cached_at(c, weather_cache, t) ==
  LET got == get_cached_weather(c, weather_cache.location, t)
  IN IF got.found # NoValue
       THEN LET existing_cache ==
                  [got.found EXCEPT
                     !.temperature = weather_cache.temperature,
                     !.condition = weather_cache.condition,
                     !.humidity = weather_cache.humidity,
                     !.wind_speed = weather_cache.wind_speed,
                     !.updated_at = weather_cache.updated_at]
            IN [cache |-> (got.cache \ {got.found}) \cup {existing_cache},
                row |-> existing_cache]
       ELSE LET inserted == [weather_cache EXCEPT !.id = NextCacheId(got.cache)]
            IN [cache |-> got.cache \cup {inserted}, row |-> inserted]

\* WeatherRepository.store_weather_cache: the table after the write and the
\* row written.
store_weather_cache(c, weather_cache, t) ==
  LET got == get_cached_weather(c, weather_cache.location, t)
  IN IF got.found # NoValue
       THEN LET existing_cache ==
                  [got.found EXCEPT
                     !.temperature = weather_cache.temperature,
                     !.condition = weather_cache.condition,
                     !.humidity = weather_cache.humidity,
                     !.wind_speed = weather_cache.wind_speed,
                     !.updated_at = weather_cache.updated_at,
                     !.cached_at = t]
            IN [cache |-> (got.cache \ {got.found}) \cup {existing_cache},
                row |-> existing_cache]
       ELSE LET inserted == [weather_cache EXCEPT !.id = NextCacheId(got.cache)]
            IN [cache |-> got.cache \cup {inserted}, row |-> inserted]

cleanup_expired_cache_count_all(c, t) ==
  [cache |-> {r \in c : ~is_expired(r, t)}, count |-> Cardinality(c)]

\* WeatherRepository.cleanup_expired_cache
cleanup_expired_cache(c, t) ==
  [cache |-> {r \in c : ~is_expired(r, t)},
   count |-> Cardinality({r \in c : is_expired(r, t)})]

clear_location_cache_valid_only(c, location) ==
  LET rows == {r \in c : r.location = location /\ r.cached_at >= 1800}
  IN IF rows = {} THEN [cache |-> c, cleared |-> FALSE]
     ELSE [cache |-> c \ {first(rows)}, cleared |-> TRUE]

\* WeatherRepository.clear_location_cache
clear_location_cache(c, location) ==
  LET rows == {r \in c : r.location = location}
  IN IF rows = {} THEN [cache |-> c, cleared |-> FALSE]
     ELSE [cache |-> c \ {first(rows)}, cleared |-> TRUE]

get_all_cached_locations_unfiltered(c, t) == {r.location : r \in c}

\* WeatherRepository.get_all_cached_locations
get_all_cached_locations(c, t) == {r.location : r \in {x \in c : ~is_expired(x, t)}}

(***************************************************************************)
(* Mock generator and provider client.                                     *)
(***************************************************************************)
MockConditions ==
  <<<<"S", "u", "n", "n", "y">>,
    <<"P", "a", "r", "t", "l", "y", " ", "C", "l", "o", "u", "d", "y">>,
    <<"C", "l", "o", "u", "d", "y">>,
    <<"R", "a", "i", "n", "y">>>>

\* MockWeatherResponse.generate_mock_weather, with the process's string hash.
generate_mock_weather(location, hash, t) ==
  LET location_hash == hash[lower(location)] % 100
  IN [location |-> location,
      temperature |-> 15 + (location_hash % 25),
      condition |-> MockConditions[(location_hash % 4) + 1],
      humidity |-> 40 + (location_hash % 50),
      wind_speed |-> 10 * (5 + (location_hash % 20)),
      updated_at |-> t]

\* WeatherAPIRequest.to_kmh: tenths of m/s to tenths of km/h, rounded.
to_kmh(ms_speed) == ((ms_speed * 36) + 5) \div 10

\* WeatherResponse field constraints.
WeatherResponseValid(r) ==
  /\ r.humidity >= 0
  /\ r.humidity <= 100
  /\ r.wind_speed >= 0

\* WeatherService._fetch_weather_from_api: the response it returns, or the
\* error it raises.  Without a credential it raises before any HTTP request;
\* otherwise reply is what the one HTTP request ended with.
fetch_weather_from_api(api_key, reply, t) ==
  IF ~api_key THEN [ok |-> FALSE, error |-> "ValueError"]
  ELSE IF reply.kind = "timeout" THEN [ok |-> FALSE, error |-> "504"]
  ELSE IF reply.kind = "http404" THEN [ok |-> FALSE, error |-> "404"]
  ELSE IF reply.kind \in {"http401", "http500", "error"}
    THEN [ok |-> FALSE, error |-> "503"]
  ELSE IF \/ "temp" \notin DOMAIN reply.body.main
          \/ "humidity" \notin DOMAIN reply.body.main
          \/ reply.body.weather = <<>>
    THEN [ok |-> FALSE, error |-> "503"]
  ELSE LET resp ==
             [location |-> reply.body.name,
              temperature |-> reply.body.main.temp,
              condition |-> title(reply.body.weather[1].description),
              humidity |-> reply.body.main.humidity,
              wind_speed |-> to_kmh(IF "speed" \in DOMAIN reply.body.wind
                                      THEN reply.body.wind.speed ELSE 0),
              updated_at |-> t]
       IN IF WeatherResponseValid(resp) THEN [ok |-> TRUE, resp |-> resp]
          ELSE [ok |-> FALSE, error |-> "503"]

obtain_weather_reraise(location, fetched, hash, t) ==
  IF fetched.ok
    THEN [raised |-> FALSE, resp |-> fetched.resp, source |-> "provider",
          swallowed |-> "none"]
    ELSE IF fetched.error = "ValueError"
    THEN [raised |-> FALSE, resp |-> generate_mock_weather(location, hash, t),
          source |-> "mock", swallowed |-> fetched.error]
    ELSE [raised |-> TRUE, error |-> fetched.error,
          resp |-> generate_mock_weather(location, hash, t)]

obtain_weather_mock_only(location, fetched, hash, t) ==
  [raised |-> FALSE, resp |-> generate_mock_weather(location, hash, t),
   source |-> "mock", swallowed |-> IF fetched.ok THEN "none" ELSE fetched.error]

\* The try/except of get_weather_for_location around the fetch: the
\* response to cache and return, or the error that leaves the handler.
obtain_weather(location, fetched, hash, t) ==
  IF fetched.ok
    THEN [raised |-> FALSE, resp |-> fetched.resp, source |-> "provider",
          swallowed |-> "none"]
    ELSE [raised |-> FALSE, resp |-> generate_mock_weather(location, hash, t),
          source |-> "mock", swallowed |-> fetched.error]

(***************************************************************************)
(* Weather service.                                                        *)
(***************************************************************************)
WeatherEvent_no_reject(op, location, status, result) ==
  [op |-> op, id |-> 0, inp |-> location,
   status |-> IF status = "InvalidInput" THEN "ok" ELSE status,
   result |-> result]

WeatherEvent(op, location, status, result) ==
  [op |-> op, id |-> 0, inp |-> location, status |-> status, result |-> result]

\* The WeatherResponse built from a cache row.
CachedResponse(row) ==
  [location |-> row.location, temperature |-> row.temperature,
   condition |-> row.condition, humidity |-> row.humidity,
   wind_speed |-> row.wind_speed, updated_at |-> row.updated_at]

CacheRowStale(resp, t) ==
  [id |-> 0, location |-> resp.location, temperature |-> resp.temperature,
   condition |-> resp.condition, humidity |-> resp.humidity,
   wind_speed |-> resp.wind_speed, updated_at |-> resp.updated_at,
   cached_at |-> t - 1800]

\* The WeatherCache row built from a response.
CacheRow(resp, t) ==
  [id |-> 0, location |-> resp.location, temperature |-> resp.temperature,
   condition |-> resp.condition, humidity |-> resp.humidity,
   wind_speed |-> resp.wind_speed, updated_at |-> resp.updated_at,
   cached_at |-> t]

Pending == LET RECURSIVE Sum(_)
               Sum(ks) == IF ks = {} THEN 0
                          ELSE LET k == CHOOSE x \in ks : TRUE
                               IN inflight[k] + Sum(ks \ {k})
           IN Sum(Keys)

NotServed == [k \in Keys |-> NoValue]

Readings(resp) ==
  [temperature |-> resp.temperature, condition |-> resp.condition,
   humidity |-> resp.humidity, wind_speed |-> resp.wind_speed]

\* Lines 46-66 of get_weather_for_location: obtain a response, cache it,
\* return it.  c is the table as the handler finds it.
CompleteGetWeather(op, inp, loc, c, fetched, attempted) ==
  LET got == obtain_weather(loc, fetched, hashSeed, now)
      st == store_weather_cache(c, CacheRow(got.resp, now), now)
  IN IF got.raised
       THEN /\ cache' = c
            /\ last' = WeatherEvent(op, inp, got.error, NoValue)
       ELSE /\ st.row.id <= MaxCacheId
            /\ cache' = st.cache
            /\ last' = WeatherEvent(op, inp, "ok",
                         [snap |-> got.resp, source |-> got.source,
                          attempted |-> attempted, swallowed |-> got.swallowed])

\* get_weather_for_location up to its return or, on a cache miss with a
\* credential, up to the HTTP request.
GetWeather(location) ==
  /\ IF location = <<>> \/ strip(location) = <<>>
       THEN /\ last' = WeatherEvent("getWeather", location, "InvalidInput", NoValue)
            /\ UNCHANGED <<cache, inflight, served>>
       ELSE LET loc == strip(location)
                got == get_cached_weather(cache, loc, now)
            IN IF got.found # NoValue
                 THEN /\ cache' = got.cache
                      /\ last' = WeatherEvent("getWeather", location, "ok",
                                   [snap |-> CachedResponse(got.found),
                                    source |-> "cache", attempted |-> FALSE,
                                    swallowed |-> "none"])
                      /\ served' =
                           IF apiKey THEN served
                           ELSE [served EXCEPT ![loc] =
                                   [snap |-> Readings(got.found), at |-> now,
                                    wrote_at |-> IF served[loc] = NoValue THEN -1
                                                 ELSE served[loc].wrote_at]]
                      /\ UNCHANGED inflight
                 ELSE IF ~apiKey
                 THEN /\ CompleteGetWeather("getWeather", location, loc, got.cache,
                           fetch_weather_from_api(FALSE, NoValue, now), FALSE)
                      /\ served' =
                           IF last'.status # "ok" THEN served
                           ELSE [served EXCEPT ![loc] =
                                   [snap |-> Readings(last'.result.snap),
                                    at |-> now, wrote_at |-> now]]
                      /\ UNCHANGED inflight
                 ELSE /\ Pending < MaxInflight
                      /\ cache' = got.cache
                      /\ inflight' = [inflight EXCEPT ![loc] = @ + 1]
                      /\ last' = WeatherEvent("getWeather", location, "pending",
                                              NoValue)
                      /\ UNCHANGED served
  /\ UNCHANGED <<trips, now, hashSeed, apiKey>>

\* get_weather_for_location from the end of the HTTP request to its return.
ProviderReply(loc, reply) ==
  /\ inflight[loc] > 0
  /\ CompleteGetWeather("getWeatherResume", loc, loc, cache,
                        fetch_weather_from_api(apiKey, reply, now), TRUE)
  /\ inflight' = [inflight EXCEPT ![loc] = @ - 1]
  /\ UNCHANGED <<trips, now, hashSeed, apiKey, served>>

\* WeatherService.clear_cache_for_location
ClearCache(location) ==
  /\ LET res == clear_location_cache(cache, location)
     IN /\ cache' = res.cache
        /\ last' = WeatherEvent("clearCache", location, "ok", res.cleared)
        /\ served' = IF res.cleared THEN [served EXCEPT ![location] = NoValue]
                     ELSE served
  /\ UNCHANGED <<trips, now, hashSeed, apiKey, inflight>>

\* WeatherService.cleanup_expired_cache
CleanupExpired ==
  /\ LET res == cleanup_expired_cache(cache, now)
     IN /\ cache' = res.cache
        /\ last' = WeatherEvent("cleanupExpired", <<>>, "ok", res.count)
        /\ served' = [k \in Keys |->
                        IF \E r \in cache \ res.cache : r.location = k
                          THEN NoValue ELSE served[k]]
  /\ UNCHANGED <<trips, now, hashSeed, apiKey, inflight>>

\* WeatherService.get_cached_locations
ListCached ==
  /\ last' = WeatherEvent("listCached", <<>>, "ok",
                          get_all_cached_locations(cache, now))
  /\ UNCHANGED <<trips, cache, now, hashSeed, apiKey, inflight, served>>

\* WeatherService.has_cached_weather, WeatherRepository.exists
HasCached(location) ==
  /\ LET got == get_cached_weather(cache, location, now)
     IN /\ cache' = got.cache
        /\ last' = WeatherEvent("hasCached", location, "ok", got.found # NoValue)
  /\ UNCHANGED <<trips, now, hashSeed, apiKey, inflight, served>>

\* The server process ends and a new one starts: the database file stays,
\* the requests in flight are lost, the environment is read again and the
\* string hash of the new process is another one.
Restart ==
  /\ hashSeed' \in HashFunctions
  /\ apiKey' \in BOOLEAN
  /\ inflight' = [k \in Keys |-> 0]
  /\ served' = IF apiKey' THEN NotServed ELSE served
  /\ last' = WeatherEvent("restart", <<>>, "ok", NoValue)
  /\ UNCHANGED <<trips, cache, now>>

\* The wall clock (datetime.utcnow) moves on between two requests.
Tick(instants) ==
  /\ \E t \in instants : t > now /\ now' = t
  /\ last' = TripEvent("tick", 0, NoValue, "ok", NoValue)
  /\ UNCHANGED <<trips, weatherVars>>

Init ==
  /\ trips = {}
  /\ cache = {}
  /\ now = 0
  /\ hashSeed \in HashFunctions
  /\ apiKey \in BOOLEAN
  /\ inflight = [k \in Keys |-> 0]
  /\ served = NotServed
  /\ last = TripEvent("init", 0, NoValue, "ok", NoValue)

\* The trip operations read neither the credential nor the string hash: the
\* trip specifications start from one environment.
TripInit ==
  /\ Init
  /\ ~apiKey
  /\ \A k \in DOMAIN hashSeed : hashSeed[k] = 0

WeatherNext ==
  \/ \E l \in LocationInputs : GetWeather(l)
  \/ \E k \in Keys, reply \in ProviderReplies : ProviderReply(k, reply)
  \/ \E l \in Keys : ClearCache(l)
  \/ CleanupExpired
  \/ ListCached
  \/ \E l \in Keys : HasCached(l)
  \/ Restart
  \/ Tick(Instants)

WeatherSpec == Init /\ [][WeatherNext]_vars

TripNext ==
  \/ \E inp \in DateCreates : CreateTrip(inp)
  \/ \E id \in TripIds : GetTrip(id)
  \/ \E id \in TripIds, upd \in DateUpdates : UpdateTrip(id, upd)
  \/ \E id \in TripIds : DeleteTrip(id)
  \/ Tick(TripInstants)

TripSpec == TripInit /\ [][TripNext]_vars

FieldNext ==
  \/ \E inp \in {i \in DateCreates : i.start_date = 1} : CreateTrip(inp)
  \/ \E id \in TripIds, upd \in FieldUpdates : UpdateTrip(id, upd)
  \/ \E id \in TripIds : DeleteTrip(id)
  \/ Tick(TripInstants)

FieldSpec == TripInit /\ [][FieldNext]_vars

CreateNext ==
  \/ \E inp \in LengthCreates : CreateTrip(inp)
  \/ \E id \in TripIds : GetTrip(id)
  \/ \E id \in TripIds : DeleteTrip(id)
  \/ Tick(TripInstants)

CreateSpec == TripInit /\ [][CreateNext]_vars

(***************************************************************************)
(* Properties of the weather service.                                      *)
(***************************************************************************)
\* The entries a read of the cache for this location can return.
ValidEntries(location) ==
  {r \in cache : r.location = location /\ now - r.cached_at <= 1800}

IsGetWeather(e) == e.op \in {"getWeather", "getWeatherResume"}

\* C1: when a non-expired entry exists for the trimmed location, getWeather
\* returns that entry's location, temperature, condition, humidity, wind
\* speed and updated-at, calls neither the provider nor the mock generator,
\* and leaves the cache unchanged.
C1_CacheHit ==
  [][(last'.op = "getWeather" /\ ValidEntries(strip(last'.inp)) # {}) =>
       /\ last'.status = "ok"
       /\ last'.result.source = "cache"
       /\ ~last'.result.attempted
       /\ last'.result.swallowed = "none"
       /\ inflight' = inflight
       /\ cache' = cache
       /\ \E r \in ValidEntries(strip(last'.inp)) :
            last'.result.snap =
              [location |-> r.location, temperature |-> r.temperature,
               condition |-> r.condition, humidity |-> r.humidity,
               wind_speed |-> r.wind_speed, updated_at |-> r.updated_at]]_vars

\* A request with surrounding blanks was answered from an entry exactly 30
\* minutes old while a provider credential was configured.
C1_Witness ==
  /\ last.op = "getWeather"
  /\ last.status = "ok"
  /\ last.result.source = "cache"
  /\ last.inp # strip(last.inp)
  /\ apiKey
  /\ \E r \in cache : r.location = strip(last.inp) /\ now - r.cached_at = 1800

\* C2: getWeather fails only with InvalidInput, and only for a blank
\* location; whenever the provider fails (no credential, timeout, 404, 401,
\* other status, malformed body, unexpected error) it returns the mock
\* generator's snapshot for the trimmed location, with temperature in
\* [15,40) and wind speed in [5,25) km/h.
C2_NeverProviderError ==
  IsGetWeather(last) =>
    /\ last.status \in {"ok", "pending", "InvalidInput"}
    /\ (last.status = "InvalidInput") <=> (strip(last.inp) = <<>>)
    /\ (last.status = "ok" /\ last.result.source # "cache") =>
         (last.result.swallowed = "none") <=> (last.result.source = "provider")
    /\ (last.status = "ok" /\ last.result.source = "mock") =>
         /\ last.result.snap.location = strip(last.inp)
         /\ last.result.snap.temperature \in 15..39
         /\ last.result.snap.humidity \in 40..89
         /\ last.result.snap.wind_speed >= 50
         /\ last.result.snap.wind_speed < 250
         /\ Readings(last.result.snap) =
              Readings(generate_mock_weather(strip(last.inp), hashSeed, now))

\* The provider answered 404 and the request returned the mock snapshot.
C2_Witness ==
  /\ last.op = "getWeatherResume"
  /\ last.status = "ok"
  /\ last.result.swallowed = "404"
  /\ last.result.source = "mock"
  /\ last.result.snap.temperature = 39

\* C3 as stated: without a provider credential, a getWeather call less than
\* 30 minutes after a previous call for the same location, with no clear or
\* sweep of the entry in between, is a pure cache hit returning the same
\* readings and leaving the cache unchanged.
C3_IdempotentAsStated ==
  [][(/\ last'.op = "getWeather"
      /\ ~apiKey
      /\ strip(last'.inp) # <<>>
      /\ served[strip(last'.inp)] # NoValue
      /\ now - served[strip(last'.inp)].at < 1800) =>
       /\ last'.status = "ok"
       /\ last'.result.source = "cache"
       /\ Readings(last'.result.snap) = served[strip(last'.inp)].snap
       /\ cache' = cache]_vars

\* C3 amended: without a provider credential, a getWeather call less than
\* 30 minutes after a call for the same location that was a cache miss (and
\* so wrote the entry), with no clear or sweep of the entry in between, is a
\* pure cache hit: it returns the same temperature, condition, humidity and
\* wind speed, calls neither provider nor mock generator and leaves the
\* cache unchanged.
C3_Idempotent ==
  [][(/\ last'.op = "getWeather"
      /\ ~apiKey
      /\ strip(last'.inp) # <<>>
      /\ served[strip(last'.inp)] # NoValue
      /\ served[strip(last'.inp)].wrote_at >= 0
      /\ now - served[strip(last'.inp)].wrote_at < 1800) =>
       /\ last'.status = "ok"
       /\ last'.result.source = "cache"
       /\ ~last'.result.attempted
       /\ Readings(last'.result.snap) = served[strip(last'.inp)].snap
       /\ cache' = cache]_vars

\* A second call one second after the miss that wrote the entry was answered
\* from the cache.
C3_Witness ==
  /\ last.op = "getWeather"
  /\ last.status = "ok"
  /\ last.result.source = "cache"
  /\ ~apiKey
  /\ served[strip(last.inp)] # NoValue
  /\ served[strip(last.inp)].wrote_at = 1800
  /\ served[strip(last.inp)].at = 1801

\* C4: a read of the cache returns the entry iff one exists that is at most
\* 1800 seconds old, and then changes nothing; an older entry is reported
\* absent and deleted by the read; with no entry the read reports absent and
\* changes nothing.  A cache hit never returns an entry older than 1800
\* seconds.
C4_GetValid ==
  [][/\ last'.op = "hasCached" =>
          LET rows == {r \in cache : r.location = last'.inp}
          IN /\ rows = {} => (last'.result = FALSE /\ cache' = cache)
             /\ \A r \in rows :
                  /\ (now - r.cached_at <= 1800)
                       => (last'.result = TRUE /\ cache' = cache)
                  /\ (now - r.cached_at > 1800)
                       => (last'.result = FALSE /\ cache' = cache \ {r})
     /\ (/\ last'.op = "getWeather"
         /\ last'.status = "ok"
         /\ last'.result.source = "cache") =>
          \E r \in cache :
            /\ r.location = strip(last'.inp)
            /\ now - r.cached_at <= 1800
            /\ r \in cache'
            /\ last'.result.snap = CachedResponse(r)]_vars

\* A read reported absent an entry that had been written and neither cleared
\* nor swept, and the entry is gone.
C4_Witness ==
  /\ last.op = "hasCached"
  /\ last.result = FALSE
  /\ served[last.inp] # NoValue
  /\ now - served[last.inp].wrote_at = 1801
  /\ \A r \in cache : r.location # last.inp

\* C5: the cache holds at most one entry per location.
C5_OneEntryPerLocation ==
  \A r1 \in cache : \A r2 \in cache : r1.location = r2.location => r1 = r2

\* Two requests for one location were in flight together and the second has
\* now written over the entry of the first, next to another location's entry.
C5_Witness ==
  /\ last.op = "getWeatherResume"
  /\ last.status = "ok"
  /\ last.result.source = "mock"
  /\ Cardinality(cache) = 2
  /\ \E r \in cache : /\ r.location = last.inp
                      /\ r.cached_at = 1801
                      /\ r.updated_at = 1801

(***************************************************************************)
(* Properties of the trip service.                                         *)
(***************************************************************************)
NewTripOf(id) == CHOOSE t \in trips' : t.id = id

\* The date a partial update leaves in effect: the supplied one, else the
\* stored one.
EffectiveDate(stored, o) == IF IsVal(o) THEN o.v ELSE stored

MergedDatesBad(t, upd) ==
  EffectiveDate(t.end_date, upd.end_date)
    <= EffectiveDate(t.start_date, upd.start_date)

\* C6: every stored trip has its end date strictly after its start date.
C6_EndAfterStart == \A t \in trips : t.end_date > t.start_date

\* C7: an update of an existing trip whose merged dates have end <= start
\* fails with InvalidInput and leaves the stored trip unchanged.
C7_MergedDatesRejected ==
  [][(/\ last'.op = "updateTrip"
      /\ get_by_id(last'.id) # {}
      /\ MergedDatesBad(TripOf(last'.id), last'.inp))
       => (last'.status = "InvalidInput" /\ trips' = trips)]_vars

CreateStoresOne ==
  /\ last'.status = "ok"
  /\ last'.id \notin {t.id : t \in trips}
  /\ \E row \in trips' :
       /\ trips' = trips \cup {row}
       /\ row \notin trips
       /\ row.id = last'.id
       /\ row.created_at = row.updated_at
       /\ row.name = last'.inp.name
       /\ row.destination = last'.inp.destination
       /\ row.start_date = last'.inp.start_date
       /\ row.end_date = last'.inp.end_date
       /\ last'.result.id = row.id
       /\ last'.result.duration_days = last'.inp.end_date - last'.inp.start_date

CreateRejected == last'.status = "InvalidInput" /\ trips' = trips

\* C8 as stated: every input with non-empty name and destination and end
\* date after start date is stored; every input with end <= start is
\* rejected with InvalidInput and nothing is stored.
C8_CreateAsStated ==
  [][last'.op = "createTrip" =>
       /\ (/\ Len(last'.inp.name) >= 1
           /\ Len(last'.inp.destination) >= 1
           /\ last'.inp.end_date > last'.inp.start_date) => CreateStoresOne
       /\ (last'.inp.end_date <= last'.inp.start_date) => CreateRejected]_vars

\* C8 amended: every input with a name of 1 to 100 characters, a non-empty
\* destination, notes absent or of at most 500 characters and end date after
\* start date is stored as exactly one new trip, with a new identifier,
\* created-at = updated-at and duration_days = end - start; every input with
\* end <= start is rejected with InvalidInput and nothing is stored.
C8_CreateWithinLimits ==
  [][last'.op = "createTrip" =>
       /\ (/\ Len(last'.inp.name) >= 1
           /\ Len(last'.inp.name) <= NameMaxLength
           /\ Len(last'.inp.destination) >= 1
           /\ (IsVal(last'.inp.notes)
                 => Len(last'.inp.notes.v) <= NotesMaxLength)
           /\ last'.inp.end_date > last'.inp.start_date) => CreateStoresOne
       /\ (last'.inp.end_date <= last'.inp.start_date) => CreateRejected]_vars

\* A second trip was created with a name and notes of the greatest lengths
\* allowed, next to a stored one.
C8_Witness ==
  /\ last.op = "createTrip"
  /\ last.status = "ok"
  /\ last.id = 2
  /\ Len(last.inp.name) = NameMaxLength
  /\ IsVal(last.inp.notes)
  /\ last.result.duration_days = 1
  /\ Cardinality(trips) = 2

TripFields == {"name", "destination", "start_date", "end_date", "notes"}

\* C9: a successful update changes only the supplied fields and updated-at,
\* which becomes the current time; the identifier, created-at, the fields not
\* supplied and every other trip keep their stored values.
C9_UpdateFrame ==
  [][(last'.op = "updateTrip" /\ last'.status = "ok") =>
       /\ get_by_id(last'.id) # {}
       /\ Cardinality({t \in trips' : t.id = last'.id}) = 1
       /\ trips' \ {NewTripOf(last'.id)} = trips \ {TripOf(last'.id)}
       /\ NewTripOf(last'.id).created_at = TripOf(last'.id).created_at
       /\ NewTripOf(last'.id).updated_at = now
       /\ \A f \in TripFields :
            last'.inp[f] = Unset => NewTripOf(last'.id)[f] = TripOf(last'.id)[f]
       /\ last'.result.id = last'.id
       /\ \A f \in TripFields : last'.result[f] = NewTripOf(last'.id)[f]]_vars

\* An update carrying only notes succeeded, later than the trip's creation,
\* on a trip that has stored notes already, with another trip in the store.
C9_Witness ==
  /\ last.op = "updateTrip"
  /\ last.status = "ok"
  /\ Supplied(last.inp) = {"notes"}
  /\ Cardinality(trips) = 2
  /\ \E t \in trips : /\ t.id = last.id
                      /\ t.updated_at > t.created_at
                      /\ t.name = <<"b">>
                      /\ t.notes = last.inp.notes

\* C10 as stated: getTrip, updateTrip and deleteTrip with an identifier that
\* is not in the store fail with NotFound and leave the store unchanged; a
\* successful deleteTrip removes exactly that trip.
C10_NotFoundAsStated ==
  [][/\ (/\ last'.op \in {"getTrip", "updateTrip", "deleteTrip"}
         /\ get_by_id(last'.id) = {})
          => (last'.status = "NotFound" /\ trips' = trips)
     /\ (last'.op = "deleteTrip" /\ last'.status = "ok")
          => (/\ get_by_id(last'.id) # {}
              /\ trips' = trips \ {TripOf(last'.id)}
              /\ \A t \in trips' : t.id # last'.id)]_vars

\* C10 amended: getTrip and deleteTrip with an identifier that is not in the
\* store fail with NotFound, and so does updateTrip when its partial input
\* passes the request validation (an input the validation rejects fails with
\* InvalidInput before the lookup); the store is unchanged in every such
\* case.  A successful deleteTrip removes exactly that trip, after which the
\* identifier is not in the store.
C10_NotFound ==
  [][/\ (/\ last'.op \in {"getTrip", "deleteTrip"}
         /\ get_by_id(last'.id) = {})
          => (last'.status = "NotFound" /\ trips' = trips)
     /\ (/\ last'.op = "updateTrip"
         /\ get_by_id(last'.id) = {})
          => /\ trips' = trips
             /\ last'.status =
                  IF TripUpdateValid(last'.inp) THEN "NotFound" ELSE "InvalidInput"
     /\ (last'.op = "deleteTrip" /\ last'.status = "ok")
          => (/\ get_by_id(last'.id) # {}
              /\ trips' = trips \ {TripOf(last'.id)}
              /\ \A t \in trips' : t.id # last'.id)]_vars

\* A trip was deleted while another one stays, and the deleted identifier is
\* gone from the store.
C10_Witness ==
  /\ last.op = "deleteTrip"
  /\ last.status = "ok"
  /\ get_by_id(last.id) = {}
  /\ trips # {}

\* C11: clearCacheForLocation returns true exactly when an entry, expired or
\* not, existed for the location; after it the location is not listed, a read
\* of the cache for it finds nothing, every other entry is unchanged, and a
\* getWeather for that location that comes next is a cache miss.
C11_Clear ==
  [][/\ last'.op = "clearCache" =>
          /\ last'.result = (\E r \in cache : r.location = last'.inp)
          /\ cache' = {r \in cache : r.location # last'.inp}
          /\ last'.inp \notin get_all_cached_locations(cache', now')
          /\ get_cached_weather(cache', last'.inp, now').found = NoValue
     /\ (/\ last.op = "clearCache"
         /\ last'.op = "getWeather"
         /\ strip(last'.inp) = last.inp) =>
          /\ last'.status \in {"ok", "pending"}
          /\ last'.status = "ok" => last'.result.source = "mock"]_vars

\* An entry was cleared while the entry of another location, which is
\* expired, stays in the store.
C11_Witness ==
  /\ last.op = "clearCache"
  /\ last.result = TRUE
  /\ \A r \in cache : r.location # last.inp
  /\ \E r \in cache : now - r.cached_at > 1800

\* C12: cleanupExpiredCache deletes exactly the entries older than 1800
\* seconds and returns how many it deleted; every other entry stays with its
\* fields unchanged and is still returned by a read of the cache; a second
\* run right after it deletes nothing and returns 0.
C12_Sweep ==
  [][/\ last'.op = "cleanupExpired" =>
          /\ cache' = {r \in cache : now - r.cached_at <= 1800}
          /\ last'.result = Cardinality({r \in cache : now - r.cached_at > 1800})
          /\ \A r \in cache' :
               get_cached_weather(cache', r.location, now') = [found |-> r, cache |-> cache']
          /\ cleanup_expired_cache(cache', now') = [cache |-> cache', count |-> 0]
     /\ (last.op = "cleanupExpired" /\ last'.op = "cleanupExpired") =>
          (cache' = cache /\ last'.result = 0)]_vars

\* The sweep deleted one entry and kept the entry of another location that
\* is one second old.
C12_Witness ==
  /\ last.op = "cleanupExpired"
  /\ last.result = 1
  /\ \E r \in cache : now - r.cached_at = 1

\* C13: mock determinism.  Any two runs of the mock generator for locations
\* with the same lowercased string, in one server process or in two, yield
\* the same temperature, condition, humidity and wind speed.  (served keeps,
\* for a location whose entry a keyless miss wrote, the readings the mock
\* generator produced for it.)
C13_MockDeterminism ==
  [][(/\ last'.op = "getWeather"
      /\ last'.status = "ok"
      /\ last'.result.source = "mock") =>
       \A k \in Keys :
         (/\ lower(k) = lower(strip(last'.inp))
          /\ served[k] # NoValue
          /\ served[k].wrote_at >= 0) =>
           Readings(last'.result.snap) = served[k].snap]_vars

\* C14: two getWeather requests for one location were waiting on the provider
\* together (both had read a cache miss) and complete one after the other.
\* Neither fails, and after the second the cache holds exactly one entry for
\* that location, with the readings, updated-at and cached-at of the second
\* write.
C14_LastWriteWins ==
  [][(/\ last.op = "getWeatherResume"
      /\ last'.op = "getWeatherResume"
      /\ last'.inp = last.inp
      /\ inflight[last.inp] >= 1) =>
       /\ last.status = "ok"
       /\ last'.status = "ok"
       /\ Cardinality({r \in cache' : r.location = last'.inp}) = 1
       /\ \A r \in cache' :
            r.location = last'.inp =>
              /\ CachedResponse(r) = last'.result.snap
              /\ r.cached_at = now']_vars

\* A getWeather step that obtained a snapshot and wrote it to the cache.
IsUpsert ==
  /\ IsGetWeather(last')
  /\ last'.status = "ok"
  /\ last'.result.source # "cache"

\* The table as store_weather_cache finds it in such a step: after the read
\* of line 35 when the handler ran through, as it is when the handler resumes.
UpsertTable ==
  IF last'.op = "getWeatherResume" THEN cache
  ELSE get_cached_weather(cache, strip(last'.inp), now).cache

\* C15 as stated: an entry that exists for the snapshot's location, expired
\* or not, is overwritten in place (it stays the same row) with the
\* snapshot's values and cached-at = now; only when none exists is a new row
\* inserted.  Afterwards the entry is non-expired and holds the snapshot.
C15_UpsertAsStated ==
  [][IsUpsert =>
       LET old == {r \in UpsertTable : r.location = last'.result.snap.location}
       IN \E row \in cache' :
            /\ cache' = (UpsertTable \ old) \cup {row}
            /\ CachedResponse(row) = last'.result.snap
            /\ row.cached_at = now'
            /\ now' - row.cached_at <= 1800
            /\ \A o \in old : row.id = o.id
            /\ old = {} => row.id \notin {r.id : r \in UpsertTable}]_vars

\* C15 amended: a non-expired entry for the snapshot's location is
\* overwritten in place; an expired one is deleted and a new row is inserted,
\* with the key the store assigns after the deletion; with no entry a new row
\* is inserted.  In every case the location then has exactly one entry, which
\* is non-expired, holds the snapshot's values and has cached-at = now, and
\* the entries of other locations are unchanged.
C15_Upsert ==
  [][IsUpsert =>
       LET old == {r \in UpsertTable : r.location = last'.result.snap.location}
       IN \E row \in cache' :
            /\ cache' = (UpsertTable \ old) \cup {row}
            /\ CachedResponse(row) = last'.result.snap
            /\ row.cached_at = now'
            /\ now' - row.cached_at <= 1800
            /\ \A o \in old :
                 row.id = IF now - o.cached_at <= 1800 THEN o.id
                          ELSE NextCacheId(UpsertTable \ old)
            /\ old = {} => row.id = NextCacheId(UpsertTable)]_vars

\* A provider snapshot was written as a new row with a key greater than that
\* of the other location's entry, which was written at the same time.
C15_Witness ==
  /\ last.op = "getWeatherResume"
  /\ last.status = "ok"
  /\ last.result.source = "provider"
  /\ now = 1801
  /\ \E row \in cache : \E other \in cache :
       /\ row.location = last.result.snap.location
       /\ row.id = 3
       /\ other.id = 2
       /\ other.cached_at = now
       /\ row.cached_at = now

\* C16: listCachedLocations returns exactly the locations of the entries at
\* most 1800 seconds old and changes nothing in the store, so expired
\* entries stay; an entry is removed or changed only by getWeather (its read
\* and its write), hasCachedWeather, clear and the sweep.
C16_ListValid ==
  [][/\ last'.op = "listCached" =>
          /\ last'.result = {r.location : r \in {x \in cache : now - x.cached_at <= 1800}}
          /\ cache' = cache
     /\ (cache \ cache' # {}) =>
          last'.op \in {"getWeather", "getWeatherResume", "hasCached",
                        "clearCache", "cleanupExpired"}]_vars

\* The list named one location while the store holds two entries, one of
\* them expired.
C16_Witness ==
  /\ last.op = "listCached"
  /\ Cardinality(last.result) = 1
  /\ Cardinality(cache) = 2
  /\ \E r \in cache : now - r.cached_at > 1800 /\ r.location \notin last.result

\* The snapshot a getWeather step returns is in the cache when it returns.
Written ==
  \E row \in cache' :
    CachedResponse(row) = last'.result.snap /\ row.cached_at = now'

\* C17: a getWeather call makes one provider attempt on a cache miss and none
\* on a hit, and never a second one; the mock generator runs only after that
\* attempt has failed; the cache is written after the snapshot is obtained
\* and before the call returns.  (Without a credential the attempt fails
\* before any HTTP request; with one, the attempt is the one HTTP request the
\* call waits for.)
C17_SingleAttempt ==
  [][/\ (last'.op = "getWeather" /\ last'.status = "ok") =>
          /\ inflight' = inflight
          /\ ~last'.result.attempted
          /\ \/ /\ last'.result.source = "cache"
                /\ last'.result.swallowed = "none"
             \/ /\ last'.result.source = "mock"
                /\ last'.result.swallowed = "ValueError"
                /\ ~apiKey
                /\ Written
     /\ (last'.op = "getWeather" /\ last'.status = "pending") =>
          /\ apiKey
          /\ inflight' = [inflight EXCEPT ![strip(last'.inp)] = @ + 1]
          /\ cache' = get_cached_weather(cache, strip(last'.inp), now).cache
          /\ get_cached_weather(cache, strip(last'.inp), now).found = NoValue
     /\ last'.op = "getWeatherResume" =>
          /\ last'.status = "ok"
          /\ last'.result.attempted
          /\ inflight' = [inflight EXCEPT ![last'.inp] = @ - 1]
          /\ \/ /\ last'.result.source = "provider"
                /\ last'.result.swallowed = "none"
             \/ /\ last'.result.source = "mock"
                /\ last'.result.swallowed \in {"504", "404", "503"}
          /\ Written]_vars

\* The one HTTP request of a cache miss timed out; the call returned the mock
\* snapshot, which is in the cache, and no request is in flight.
C17_Witness ==
  /\ last.op = "getWeatherResume"
  /\ last.status = "ok"
  /\ last.result.source = "mock"
  /\ last.result.swallowed = "504"
  /\ Pending = 0
  /\ \E row \in cache : CachedResponse(row) = last.result.snap

\* C18: getWeather with an empty or whitespace-only location fails with
\* InvalidInput and returns nothing; it reads no cache entry (an expired one
\* is not evicted), issues no provider request and leaves the cache
\* unchanged.
C18_BlankRejected ==
  [][(/\ last'.op = "getWeather"
      /\ \A i \in 1..Len(last'.inp) : last'.inp[i] = " ") =>
       /\ last'.status = "InvalidInput"
       /\ last'.result = NoValue
       /\ cache' = cache
       /\ inflight' = inflight
       /\ served' = served]_vars

\* A whitespace-only location was rejected while the store holds an expired
\* entry and a request of another caller is waiting on the provider.
C18_Witness ==
  /\ last.op = "getWeather"
  /\ last.inp = <<" ">>
  /\ last.status = "InvalidInput"
  /\ \E r \in cache : now - r.cached_at > 1800
  /\ Pending > 0

\* C19: when getWeather returns a snapshot, from the cache, the provider or
\* the mock generator, the cache holds a non-expired entry keyed by the
\* trimmed request string: a read of the cache for it finds an entry, and a
\* getWeather for the same location that comes next is a cache hit with no
\* provider request.
C19_KeyedByRequest ==
  [][/\ (IsGetWeather(last') /\ last'.status = "ok") =>
          /\ \E row \in cache' :
               /\ row.location = strip(last'.inp)
               /\ now' - row.cached_at <= 1800
          /\ get_cached_weather(cache', strip(last'.inp), now').found # NoValue
     /\ (/\ IsGetWeather(last)
         /\ last.status = "ok"
         /\ last'.op = "getWeather"
         /\ strip(last'.inp) = strip(last.inp)) =>
          /\ last'.status = "ok"
          /\ last'.result.source = "cache"
          /\ inflight' = inflight]_vars

====
